---- MODULE Spec2Model ----
(***************************************************************************)
(* Model of the paginated streaming engine of the manifold-markets client  *)
(* (src/src/streams.rs), together with the combinators of futures-util it  *)
(* is built from (stream::try_unfold, map_ok, try_flatten), the error type *)
(* (src/src/error.rs) and the typed wrappers of src/src/types.rs.          *)
(*                                                                         *)
(* Option<X> is modelled as a sequence of length 0 (None) or 1 (Some(x)).  *)
(***************************************************************************)
EXTENDS Integers, Sequences, FiniteSets, TLC

\* ------------------------------------------------------------------ bounds
\* Number of raw array elements the remote serves to one stream, over all
\* its pages.
MaxElems == 3
\* Number of polls that return end-of-stream that one consumer makes.
MaxEndPolls == 2
\* The same as MaxElems, for each stream of the specification SpecPair.
MaxElemsPair == 2
\* The number of items a truncating consumer takes.
TakeN == 2
\* The number of requests after which a consumer of an endless remote stops.
MaxLoopRequests == 3
\* The largest magnitude of a closeTime, in milliseconds.
MaxTs == 1001

\* ------------------------------------------------------------ JSON values
\* serde_json::Value, as far as the engine looks into it.  An object is known
\* by its "id" member (absent, or any JSON value) and by whether its other
\* members fit the schema of a caller-defined record type ("ok" / "bad").
JNull == [t |-> "null", s |-> "null"]
JString(x) == [t |-> "string", s |-> x]
JNumber(x) == [t |-> "number", s |-> x]
JObject(idOpt, rest) == [t |-> "object", id |-> idOpt, rest |-> rest]
JArray(elems) == [t |-> "array", v |-> elems]
\* A response body that is no JSON text at all.
NotJson == [t |-> "notjson", s |-> "<html>"]

Ids == {"a", "b"}

\* The raw array elements the remote may serve.
Elems ==
    {JObject(<<JString(i)>>, "ok") : i \in Ids}
        \cup {JObject(<<JString("a")>>, "bad"),
              JObject(<<>>, "ok"),
              JObject(<<JNumber("7")>>, "ok"),
              JNumber("7")}

\* All sequences over S of length 0..n.
SeqsUpTo(S, n) == UNION {[1..k -> S] : k \in 0..n}

\* Value's Index<&str>: the member, or Null when the value is no object or
\* has no such member.
IndexId(v) == IF v.t = "object" /\ v.id # <<>> THEN v.id[1] ELSE JNull

\* Mutant of AsStr: a number is rendered as a string instead of refused.
AsStrLossy(v) == IF v.t \in {"string", "number"} THEN <<v.s>> ELSE <<>>

\* Value::as_str
AsStr(v) == IF v.t = "string" THEN <<v.s>> ELSE <<>>

\* Mutant of AsArray: an empty array is refused like a value of another shape.
AsArrayNonEmpty(v) == IF v.t = "array" /\ v.v # <<>> THEN <<v.v>> ELSE <<>>

\* Mutant of AsArray: a value of another shape is read as an empty array.
AsArrayOrEmpty(v) == IF v.t = "array" THEN <<v.v>> ELSE << <<>> >>

\* Value::as_array
AsArray(v) == IF v.t = "array" THEN <<v.v>> ELSE <<>>
\* ------------------------------------------------------------- error type
\* ManifoldError: ParseError wraps a serde_json::Error, HttpError wraps a
\* reqwest::Error, SchemaError holds a message and an Option<Value>.
ParseError(e) == [kind |-> "ParseError", source |-> e]
HttpError(e) == [kind |-> "HttpError", source |-> e]
SchemaError(msg, valOpt) == [kind |-> "SchemaError", msg |-> msg, value |-> valOpt]

\* The JSON values an error value holds: only SchemaError has a Value member.
Carried(e) == IF e.kind = "SchemaError" THEN {e.value[i] : i \in 1..Len(e.value)} ELSE {}

ROk(x) == [ok |-> TRUE, v |-> x]
RErr(e) == [ok |-> FALSE, e |-> e]

\* ------------------------------------------------------------ item types
\* LiteMarket, User and Bet are #[serde(transparent)] wrappers of a Value:
\* every JSON value deserializes into them.
Transparent == {"LiteMarket", "User", "Bet"}
\* "Record" stands for a caller-defined T: DeserializeOwned with required
\* members, which stream_paginated accepts as well.
ItemTypes == Transparent \cup {"Record"}

\* serde_json::from_value::<T>(v)
FromValue(T, v) ==
    IF T \in Transparent THEN ROk([ty |-> T, data |-> v])
    ELSE IF v.t # "object" THEN RErr("invalid type")
    ELSE IF v.rest # "ok" THEN RErr("missing field")
    ELSE ROk([ty |-> T, data |-> v])

\* Mutant of TryCollect: the decoded elements come out in reverse order.
RECURSIVE TryCollectRev(_, _)
TryCollectRev(T, arr) ==
    IF arr = <<>> THEN ROk(<<>>)
    ELSE LET h == FromValue(T, Head(arr)) IN
         IF ~h.ok THEN h
         ELSE LET r == TryCollectRev(T, Tail(arr)) IN
              IF ~r.ok THEN r ELSE ROk(r.v \o <<h.v>>)

\* Mutant of TryCollect: an element that fails to decode is skipped.
RECURSIVE TryCollectSkipBad(_, _)
TryCollectSkipBad(T, arr) ==
    IF arr = <<>> THEN ROk(<<>>)
    ELSE LET h == FromValue(T, Head(arr))
             r == TryCollectSkipBad(T, Tail(arr))
         IN IF ~h.ok THEN r ELSE ROk(<<h.v>> \o r.v)

\* result.into_iter().map(|v| from_value(v.clone())).try_collect::<Vec<T>>():
\* the decoded elements in order, or the error of the first element that
\* fails.
RECURSIVE TryCollect(_, _)
TryCollect(T, arr) ==
    IF arr = <<>> THEN ROk(<<>>)
    ELSE LET h == FromValue(T, Head(arr)) IN
         IF ~h.ok THEN h
         ELSE LET r == TryCollect(T, Tail(arr)) IN
              IF ~r.ok THEN r ELSE ROk(<<h.v>> \o r.v)

\* ------------------------------------------------------------- transport
\* What one GET comes back with: a network-level failure, or a status line
\* and a body.
NetFailure == [net |-> "fail", status |-> 0, body |-> NotJson]
HttpResponse(status, body) == [net |-> "ok", status |-> status, body |-> body]

\* Response::error_for_status: an error for 4xx and 5xx only.
ErrorForStatus(status) == status >= 400 /\ status <= 599

\* send().await?.error_for_status()?.json::<Value>().await? : the parsed
\* body, or the reqwest::Error of the step that failed.
SendJson(resp) ==
    IF resp.net = "fail" THEN RErr(HttpError("request"))
    ELSE IF ErrorForStatus(resp.status) THEN RErr(HttpError("status"))
    ELSE IF resp.body.t = "notjson" THEN RErr(HttpError("decode"))
    ELSE ROk(resp.body)

\* Mutant of LastId: the id of the first element instead of the last.
LastIdFirst(arr) == AsStr(IndexId(arr[1]))

\* Mutant of LastId: the id of every element is read, and the page is
\* refused when one of them is no string.
LastIdStrict(arr) ==
    IF \E i \in 1..Len(arr) : AsStr(IndexId(arr[i])) = <<>> THEN <<>>
    ELSE AsStr(IndexId(arr[Len(arr)]))

\* last["id"].as_str()
LastId(arr) == AsStr(IndexId(arr[Len(arr)]))

\* Mutant of PageStep: the elements are decoded before the id of the last
\* one is read.
PageStepDecodeFirst(T, resp) ==
    LET got == SendJson(resp) IN
    IF ~got.ok THEN got
    ELSE LET arrOpt == AsArray(got.v) IN
    IF arrOpt = <<>>
    THEN RErr(SchemaError("Streaming response returned not an array?", <<got.v>>))
    ELSE LET result == arrOpt[1] IN
    IF result = <<>> THEN ROk(<<>>)
    ELSE LET last == result[Len(result)]
             items == TryCollect(T, result) IN
    IF ~items.ok THEN RErr(ParseError(items.e))
    ELSE IF LastId(result) = <<>>
    THEN RErr(SchemaError("Not a string id?", <<IndexId(last)>>))
    ELSE ROk(<<[items |-> items.v, before |-> <<LastId(result)[1]>>]>>)

\* The part of the async block after the response: Ok(None) at an empty
\* array, Ok(Some((items, Some(last_id)))) at a valid page, Err otherwise.
PageStep(T, resp) ==
    LET got == SendJson(resp) IN
    IF ~got.ok THEN got
    ELSE LET arrOpt == AsArray(got.v) IN
    IF arrOpt = <<>>
    THEN RErr(SchemaError("Streaming response returned not an array?", <<got.v>>))
    ELSE LET result == arrOpt[1] IN
    IF result = <<>> THEN ROk(<<>>)
    ELSE LET last == result[Len(result)] IN
    IF LastId(result) = <<>>
    THEN RErr(SchemaError("Not a string id?", <<IndexId(last)>>))
    ELSE LET items == TryCollect(T, result) IN
    IF ~items.ok THEN RErr(ParseError(items.e))
    ELSE ROk(<<[items |-> items.v, before |-> <<LastId(result)[1]>>]>>)

\* The parameters of one request: a copy of the base parameters, with
\* ("before", cursor) pushed when a cursor is held.
BuildParams(params, before) ==
    IF before # <<>> THEN Append(params, <<"before", before[1]>>) ELSE params
\* ---------------------------------------------------------- constructors
\* A stream is built from a path, the base parameters and the item type T.
StreamPaginated(T, path, params) == [path |-> path, params |-> params, T |-> T]

StreamMarkets == StreamPaginated("LiteMarket", "/markets", <<>>)

StreamUsers == StreamPaginated("User", "/users", <<>>)

\* Mutant of StreamBets: the filters are pushed in the order of the API
\* documentation, the market filters first.
StreamBetsMarketFirst(user_id, username, contract_id, contract_slug) ==
    LET p1 == IF contract_id # <<>> THEN <<<<"contractId", contract_id[1]>>>> ELSE <<>>
        p2 == IF contract_slug # <<>> THEN Append(p1, <<"contractSlug", contract_slug[1]>>) ELSE p1
        p3 == IF user_id # <<>> THEN Append(p2, <<"userId", user_id[1]>>) ELSE p2
        p4 == IF username # <<>> THEN Append(p3, <<"username", username[1]>>) ELSE p3
    IN StreamPaginated("Bet", "/bets", p4)

\* Each filter is an Option<&str>.
StreamBets(user_id, username, contract_id, contract_slug) ==
    LET p1 == IF user_id # <<>> THEN <<<<"userId", user_id[1]>>>> ELSE <<>>
        p2 == IF username # <<>> THEN Append(p1, <<"username", username[1]>>) ELSE p1
        p3 == IF contract_id # <<>> THEN Append(p2, <<"contractId", contract_id[1]>>) ELSE p2
        p4 == IF contract_slug # <<>> THEN Append(p3, <<"contractSlug", contract_slug[1]>>) ELSE p3
    IN StreamPaginated("Bet", "/bets", p4)

\* The calls a caller makes in this model: a stream of a transparent wrapper
\* type with a base parameter, and a stream of a caller-defined record type.
Calls ==
    {StreamBets(<<"u1">>, <<>>, <<>>, <<>>),
     StreamPaginated("Record", "/markets", <<>>)}

NoCall == StreamPaginated("none", "", <<>>)

\* ------------------------------------------------------------------ state
Streams == {"A", "B"}
\* The streams the specification Spec drives.
Solo == {"A"}

VARIABLES
    alive,      \* per stream: "absent", "live" or "dropped"
    call,       \* per stream: path, base parameters and T it was built with
    state,      \* TryUnfold.state: Option<Option<String>>, the held cursor
    fut,        \* TryUnfold.fut: Option of the request the pending future awaits
    next,       \* TryFlatten.next: Option of the iterator over a page's items
    requests,   \* history: the requests handed to the transport
    responses,  \* history: what the transport answered
    out,        \* history: what the consumer's polls returned
    probe       \* a market, the clock, the build, and what close_time and is_active gave for them

vars == <<alive, call, state, fut, next, requests, responses, out, probe>>

\* What a completed call of next() returns: Some(Ok(item)), Some(Err(e)), None.
YOk(item) == [k |-> "Ok", v |-> item]
YErr(e) == [k |-> "Err", e |-> e]
YEnd == [k |-> "End"]

\* No stream has been built.
NoStreams ==
    /\ alive = [s \in Streams |-> "absent"]
    /\ call = [s \in Streams |-> NoCall]
    /\ state = [s \in Streams |-> <<>>]
    /\ fut = [s \in Streams |-> <<>>]
    /\ next = [s \in Streams |-> <<>>]
    /\ requests = [s \in Streams |-> <<>>]
    /\ responses = [s \in Streams |-> <<>>]
    /\ out = [s \in Streams |-> <<>>]

\* No market is looked at.
NoProbe == <<>>

Init == NoStreams /\ probe = NoProbe

\* stream_paginated returns try_unfold(None, f).map_ok(..).try_flatten():
\* the seed state is Some(None), no future exists, nothing is buffered.
Construct(s, c) ==
    /\ alive[s] = "absent"
    /\ alive' = [alive EXCEPT ![s] = "live"]
    /\ call' = [call EXCEPT ![s] = c]
    /\ state' = [state EXCEPT ![s] = << <<>> >>]
    /\ UNCHANGED <<fut, next, requests, responses, out, probe>>

\* Mutant of IssueRequest: the cursor is kept in one place for all streams of
\* the client, and a request carries the cursor found there.
IssueRequestShared(s, before) ==
    LET holders == {o \in Streams : state[o] # <<>> /\ state[o][1] # <<>>}
        shared == IF holders = {} THEN before ELSE state[CHOOSE o \in holders : TRUE][1]
        req == [path |-> call[s].path, params |-> BuildParams(call[s].params, shared)]
    IN /\ state' = [state EXCEPT ![s] = <<>>]
       /\ fut' = [fut EXCEPT ![s] = <<req>>]
       /\ requests' = [requests EXCEPT ![s] = Append(@, req)]

\* Mutant of IssueRequest: the cursor is pushed onto the parameter list of
\* the previous request instead of onto a copy of the base parameters.
IssueRequestAccumulate(s, before) ==
    LET prev == IF requests[s] = <<>> THEN call[s].params
                ELSE requests[s][Len(requests[s])].params
        req == [path |-> call[s].path, params |-> BuildParams(prev, before)]
    IN /\ state' = [state EXCEPT ![s] = <<>>]
       /\ fut' = [fut EXCEPT ![s] = <<req>>]
       /\ requests' = [requests EXCEPT ![s] = Append(@, req)]

\* TryUnfold::poll_next with a state at hand: the state is taken, the async
\* block is created and polled up to send().await, which issues the request.
IssueRequest(s, before) ==
    LET req == [path |-> call[s].path, params |-> BuildParams(call[s].params, before)]
    IN /\ state' = [state EXCEPT ![s] = <<>>]
       /\ fut' = [fut EXCEPT ![s] = <<req>>]
       /\ requests' = [requests EXCEPT ![s] = Append(@, req)]

Yield(s, y) == out' = [out EXCEPT ![s] = Append(@, y)]

EndPolls(s) == Cardinality({i \in 1..Len(out[s]) : out[s][i].k = "End"})

\* Mutant of PollNext: the next page is requested as soon as a cursor is held,
\* whether or not buffered items are left.
PollNextEager(s) ==
    /\ alive[s] = "live"
    /\ fut[s] = <<>>
    /\ EndPolls(s) < MaxEndPolls
    /\ IF state[s] # <<>>
       THEN /\ next' = [next EXCEPT ![s] = <<>>]
            /\ IssueRequest(s, state[s][1])
            /\ UNCHANGED out
       ELSE IF next[s] # <<>> /\ next[s][1] # <<>>
       THEN /\ Yield(s, YOk(Head(next[s][1])))
            /\ next' = [next EXCEPT ![s] = <<Tail(@[1])>>]
            /\ UNCHANGED <<state, fut, requests>>
       ELSE /\ next' = [next EXCEPT ![s] = <<>>]
            /\ Yield(s, YEnd)
            /\ UNCHANGED <<state, fut, requests>>
    /\ UNCHANGED <<probe, alive, call, responses>>

\* One call of next() by the consumer, up to its return or to the point where
\* it waits for the transport (TryFlatten::poll_next over TryUnfold::poll_next).
PollNext(s) ==
    /\ alive[s] = "live"
    /\ fut[s] = <<>>
    /\ EndPolls(s) < MaxEndPolls
    /\ IF next[s] # <<>> /\ next[s][1] # <<>>
       THEN \* the page's iterator has an item
            /\ Yield(s, YOk(Head(next[s][1])))
            /\ next' = [next EXCEPT ![s] = <<Tail(@[1])>>]
            /\ UNCHANGED <<state, fut, requests>>
       ELSE \* no iterator, or an exhausted one: drop it and poll the unfold
            /\ next' = [next EXCEPT ![s] = <<>>]
            /\ IF state[s] # <<>>
               THEN IssueRequest(s, state[s][1]) /\ UNCHANGED out
               ELSE Yield(s, YEnd) /\ UNCHANGED <<state, fut, requests>>
    /\ UNCHANGED <<probe, alive, call, responses>>

\* The raw elements served to stream s so far.
RECURSIVE Served(_)
Served(rs) ==
    IF rs = <<>> THEN 0
    ELSE (IF Head(rs).body.t = "array" THEN Len(Head(rs).body.v) ELSE 0) + Served(Tail(rs))

\* The answers the transport may give to the pending request of stream s.
Answers(s) ==
    {NetFailure, HttpResponse(404, JObject(<<>>, "ok"))}
        \cup {HttpResponse(st, b) :
                st \in {200, 300},
                b \in {NotJson, JObject(<<>>, "ok")}
                        \cup {JArray(p) : p \in SeqsUpTo(Elems, MaxElems - Served(responses[s]))}}

\* The cursor the pending request of stream s was built from.
PendingCursor(s) ==
    LET ps == fut[s][1].params IN
    IF ps # <<>> /\ ps[Len(ps)][1] = "before" /\ Len(ps) > Len(call[s].params)
    THEN <<ps[Len(ps)][2]>> ELSE <<>>

\* Mutant of OnError: the cursor of the failed request is put back, so that
\* the next poll tries the page again.
OnErrorKeepCursor(s, e) ==
    /\ Yield(s, YErr(e))
    /\ fut' = [fut EXCEPT ![s] = <<>>]
    /\ state' = [state EXCEPT ![s] = <<PendingCursor(s)>>]
    /\ UNCHANGED <<next, requests>>

\* The async block returned Err(e): TryUnfold clears the future and leaves
\* its state None; the error passes through map_ok and TryFlatten.
OnError(s, e) ==
    /\ Yield(s, YErr(e))
    /\ fut' = [fut EXCEPT ![s] = <<>>]
    /\ UNCHANGED <<state, next, requests>>

\* Mutant of OnEmpty: the unfold is reseeded, so that a later poll starts
\* the pagination again.
OnEmptyRestart(s) ==
    /\ Yield(s, YEnd)
    /\ fut' = [fut EXCEPT ![s] = <<>>]
    /\ state' = [state EXCEPT ![s] = << <<>> >>]
    /\ UNCHANGED <<next, requests>>

\* The async block returned Ok(None): the unfold, and with it the flattened
\* stream, ends; the state stays None.
OnEmpty(s) ==
    /\ Yield(s, YEnd)
    /\ fut' = [fut EXCEPT ![s] = <<>>]
    /\ UNCHANGED <<state, next, requests>>

\* Mutant of OnPage: the request for the next page is issued as soon as a
\* page has arrived.
OnPagePrefetch(s, items, before) ==
    /\ Yield(s, YOk(Head(items)))
    /\ next' = [next EXCEPT ![s] = <<Tail(items)>>]
    /\ IssueRequest(s, before)

\* Mutant of OnPage: a page of a single item is taken for the last one and
\* no cursor is kept.
OnPageShortEnds(s, items, before) ==
    /\ Yield(s, YOk(Head(items)))
    /\ next' = [next EXCEPT ![s] = <<Tail(items)>>]
    /\ state' = [state EXCEPT ![s] = IF Len(items) = 1 THEN <<>> ELSE <<before>>]
    /\ fut' = [fut EXCEPT ![s] = <<>>]
    /\ UNCHANGED requests

\* The async block returned Ok(Some((items, before))): TryUnfold stores the
\* new state, map_ok turns the items into an iterator, and TryFlatten polls
\* it for the first item.  An iterator without items makes TryFlatten poll
\* the unfold again.
OnPage(s, items, before) ==
    IF items # <<>>
    THEN /\ Yield(s, YOk(Head(items)))
         /\ next' = [next EXCEPT ![s] = <<Tail(items)>>]
         /\ state' = [state EXCEPT ![s] = <<before>>]
         /\ fut' = [fut EXCEPT ![s] = <<>>]
         /\ UNCHANGED requests
    ELSE /\ IssueRequest(s, before)
         /\ UNCHANGED <<next, out>>

\* Mutant of Resume: the cursor is stored as soon as the last id is read, so
\* a page that fails to decode still advances it.
ResumeAdvanceEarly(s, resp) ==
    /\ responses' = [responses EXCEPT ![s] = Append(@, resp)]
    /\ LET step == PageStep(call[s].T, resp) IN
       IF ~step.ok /\ step.e.kind = "ParseError"
       THEN /\ Yield(s, YErr(step.e))
            /\ fut' = [fut EXCEPT ![s] = <<>>]
            /\ state' = [state EXCEPT ![s] = <<LastId(resp.body.v)>>]
            /\ UNCHANGED <<next, requests>>
       ELSE IF ~step.ok THEN OnError(s, step.e)
       ELSE IF step.v = <<>> THEN OnEmpty(s)
       ELSE OnPage(s, step.v[1].items, step.v[1].before)
    /\ UNCHANGED <<probe, alive, call>>

\* The pending request of stream s is answered with resp and the waiting poll
\* resumes: the rest of the async block runs, then map_ok and
\* TryFlatten::poll_next.
Resume(s, resp) ==
    /\ responses' = [responses EXCEPT ![s] = Append(@, resp)]
    /\ LET step == PageStep(call[s].T, resp) IN
       IF ~step.ok THEN OnError(s, step.e)
       ELSE IF step.v = <<>> THEN OnEmpty(s)
       ELSE OnPage(s, step.v[1].items, step.v[1].before)
    /\ UNCHANGED <<probe, alive, call>>

\* The transport completes the pending request.
Respond(s) ==
    /\ alive[s] = "live"
    /\ fut[s] # <<>>
    /\ \E resp \in Answers(s) : Resume(s, resp)

\* Mutant of Repoll: every poll of the waiting stream sends its request anew.
RepollResends(s) ==
    /\ alive[s] = "live"
    /\ fut[s] # <<>>
    /\ requests' = [requests EXCEPT ![s] = Append(@, fut[s][1])]
    /\ UNCHANGED <<probe, alive, call, state, fut, next, responses, out>>

\* A poll while the request is pending: TryUnfold has no state to take, polls
\* the stored future again, and that is still Pending.
Repoll(s) ==
    /\ alive[s] = "live"
    /\ fut[s] # <<>>
    /\ UNCHANGED vars

\* Mutant of Drop: the stream's state outlives the stream.
DropLeak(s) ==
    /\ alive[s] = "live"
    /\ alive' = [alive EXCEPT ![s] = "dropped"]
    /\ UNCHANGED <<call, state, fut, next, requests, responses, out, probe>>

\* The consumer drops the stream: its state, a pending future and the buffered
\* items go with it.
Drop(s) ==
    /\ alive[s] = "live"
    /\ alive' = [alive EXCEPT ![s] = "dropped"]
    /\ state' = [state EXCEPT ![s] = <<>>]
    /\ fut' = [fut EXCEPT ![s] = <<>>]
    /\ next' = [next EXCEPT ![s] = <<>>]
    /\ UNCHANGED <<call, requests, responses, out, probe>>

Next ==
    \E s \in Solo :
        \/ \E c \in Calls : Construct(s, c)
        \/ PollNext(s)
        \/ Repoll(s)
        \/ Respond(s)

Spec == Init /\ [][Next]_vars

\* The same, with a consumer that may drop the stream at any point.
NextDrop == Next \/ \E s \in Solo : Drop(s)

SpecDrop == Init /\ [][NextDrop]_vars

\* Two streams built from the same client with the same base parameters,
\* polled, answered and dropped in any interleaving.  The transport answers
\* each with a failure or with pages of elements that carry a string id.
CallPair == StreamBets(<<"u1">>, <<>>, <<>>, <<>>)

ElemsPair == {JObject(<<JString(i)>>, "ok") : i \in Ids}

AnswersPair(s) ==
    {NetFailure}
        \cup {HttpResponse(200, JArray(p)) :
                p \in SeqsUpTo(ElemsPair, MaxElemsPair - Served(responses[s]))}

RespondPair(s) ==
    /\ alive[s] = "live"
    /\ fut[s] # <<>>
    /\ \E resp \in AnswersPair(s) : Resume(s, resp)

NextPair ==
    \E s \in Streams :
        \/ Construct(s, CallPair)
        \/ PollNext(s)
        \/ Repoll(s)
        \/ RespondPair(s)
        \/ Drop(s)

SpecPair == Init /\ [][NextPair]_vars

\* A consumer that truncates the stream with take(TakeN): Take polls the
\* stream while items remain to be taken, counts every item it gets (Ok or
\* Err), and stops polling once it has TakeN items or the stream has ended.
Taken(s) == Cardinality({j \in 1..Len(out[s]) : out[s][j].k # "End"})

\* Mutant of PollTake: the count is compared after the poll.
PollTakeLate(s) ==
    /\ Taken(s) <= TakeN
    /\ EndPolls(s) = 0
    /\ PollNext(s)

PollTake(s) ==
    /\ Taken(s) < TakeN
    /\ EndPolls(s) = 0
    /\ PollNext(s)

NextTake ==
    \E s \in Solo :
        \/ \E c \in Calls : Construct(s, c)
        \/ PollTake(s)
        \/ Repoll(s)
        \/ Respond(s)

SpecTake == Init /\ [][NextTake]_vars

\* The accessors of the required member `id`: the member is looked up in
\* the wrapped Value and expect() panics when it is no string.
Panic(msg) == [panics |-> TRUE, msg |-> msg]
Returns(v) == [panics |-> FALSE, v |-> v]

UserId(u) ==
    LET r == AsStr(IndexId(u.data))
    IN IF r = <<>> THEN Panic("User.id is not a string") ELSE Returns(r[1])

MarketId(m) ==
    LET r == AsStr(IndexId(m.data))
    IN IF r = <<>> THEN Panic("Market.id is not a string") ELSE Returns(r[1])

\* The streams of the crate's typed wrappers that have accessors, and a
\* consumer that polls them.
CallsApi == {StreamMarkets, StreamUsers}

NextApi ==
    \E s \in Solo :
        \/ \E c \in CallsApi : Construct(s, c)
        \/ PollNext(s)
        \/ Repoll(s)
        \/ Respond(s)

SpecApi == Init /\ [][NextApi]_vars

\* A remote that answers every request with a page of one or two elements
\* with string ids, whatever the cursor, or with an empty page; and a
\* consumer that keeps polling until MaxLoopRequests pages are consumed.
LoopPages ==
    {<<x>> : x \in ElemsPair} \cup {<<x, y>> : x \in ElemsPair, y \in ElemsPair}

AnswersLoop == {HttpResponse(200, JArray(p)) : p \in LoopPages \cup {<<>>}}

PollLoop(s) ==
    /\ \/ next[s] # <<>> /\ next[s][1] # <<>>
       \/ Len(requests[s]) < MaxLoopRequests
    /\ PollNext(s)

RespondLoop(s) ==
    /\ alive[s] = "live"
    /\ fut[s] # <<>>
    /\ \E resp \in AnswersLoop : Resume(s, resp)

NextLoop ==
    \E s \in Solo :
        \/ Construct(s, CallPair)
        \/ PollLoop(s)
        \/ Repoll(s)
        \/ RespondLoop(s)

SpecLoop == Init /\ [][NextLoop]_vars

\* The consumer keeps polling and the transport answers every request.
FairLoop == SpecLoop /\ WF_vars(NextLoop)

\* The three stream methods called with every choice of arguments: each
\* filter of stream_bets is None or Some of a value.  The stream remembers
\* the method and the arguments it was built with.
FilterValues == {"x", "y"}

FilterOpts == {<<>>} \cup {<<v>> : v \in FilterValues}

Invoke(fn, args) ==
    (CASE fn = "stream_bets" -> StreamBets(args[1], args[2], args[3], args[4])
       [] fn = "stream_markets" -> StreamMarkets
       [] fn = "stream_users" -> StreamUsers)
        @@ [fn |-> fn, args |-> args]

Invocations ==
    {Invoke("stream_bets", <<a, b, c, d>>) :
        a \in FilterOpts, b \in FilterOpts, c \in FilterOpts, d \in FilterOpts}
        \cup {Invoke("stream_markets", <<>>), Invoke("stream_users", <<>>)}

NextFilters ==
    \E s \in Solo :
        \/ \E c \in Invocations : Construct(s, c)
        \/ PollNext(s)
        \/ Repoll(s)
        \/ RespondPair(s)

SpecFilters == Init /\ [][NextFilters]_vars

\* ------------------------------------------------- close_time, is_active
\* A u32 is kept as two 16-bit halves, with a flag that tells whether the
\* operation that gave it overflowed.
Half == 65536
U32(hi, lo, ovf) == [hi |-> hi, lo |-> lo, ovf |-> ovf]

\* `x as u32` for an i64 x of small magnitude: the low 32 bits of the two's
\* complement representation.
AsU32(x) ==
    IF x >= 0 THEN U32(x \div Half, x % Half, FALSE)
    ELSE LET y == -x - 1 IN U32(Half - 1 - (y \div Half), Half - 1 - (y % Half), FALSE)

\* Multiplication modulo 2^32 of a u32 by a factor below 2^15, half by half.
MulU32(a, k) ==
    LET lo == a.lo * k
        hi == a.hi * k + (lo \div Half)
    IN U32(hi % Half, lo % Half, a.ovf \/ hi >= Half)

\* i64 division and remainder: the quotient is truncated towards zero and
\* the remainder has the sign of the dividend.
TruncDiv(a, b) == IF a >= 0 THEN a \div b ELSE -((-a) \div b)
TruncRem(a, b) == a - b * TruncDiv(a, b)

\* A market object with a string id and the closeTime member ct: none, null,
\* a number or a string.
JMarket(ct) == JObject(<<JString("a")>>, "ok") @@ [closeTime |-> ct]

\* self.data()["closeTime"]
IndexCloseTime(v) ==
    IF v.t = "object" /\ "closeTime" \in DOMAIN v /\ v.closeTime # <<>>
    THEN v.closeTime[1] ELSE JNull

\* serde_json::from_value::<Option<i64>>
FromValueOptI64(v) ==
    IF v.t = "null" THEN ROk(<<>>)
    ELSE IF v.t = "number" THEN ROk(<<v.s>>)
    ELSE RErr("invalid type")

\* NaiveDateTime::from_timestamp_opt: None when the nanoseconds reach
\* 2_000_000_000 (the seconds of this model are always in range).
FromTimestampOpt(secs, nsecs) ==
    IF nsecs.hi >= Half \div 2 THEN <<>>
    ELSE IF nsecs.hi * Half + nsecs.lo >= 2000000000 THEN <<>>
    ELSE <<[secs |-> secs, nanos |-> nsecs.hi * Half + nsecs.lo]>>

\* Market::close_time.  An overflowing u32 multiplication panics in a build
\* with overflow checks ("debug") and wraps in one without ("release").
CloseTime(m, build) ==
    LET r == FromValueOptI64(IndexCloseTime(m.data)) IN
    IF ~r.ok THEN Panic("Invalid closeTime")
    ELSE IF r.v = <<>> THEN Returns(<<>>)
    ELSE LET ts_ms == r.v[1]
             \* x * 1_000_000 in u32, taken as (x * 1000) * 1000
             nsecs == MulU32(MulU32(AsU32(TruncRem(ts_ms, 1000)), 1000), 1000)
         IN IF nsecs.ovf /\ build = "debug"
            THEN Panic("attempt to multiply with overflow")
            ELSE LET t == FromTimestampOpt(TruncDiv(ts_ms, 1000), nsecs) IN
                 IF t = <<>> THEN Panic("Market.closeTime is not a valid timestamp")
                 ELSE Returns(t)

\* t > now on instants
After(t, now) == t.secs > now.secs \/ (t.secs = now.secs /\ t.nanos > now.nanos)

\* Market::is_active, with `now` for Utc::now()
IsActive(m, build, now) ==
    LET c == CloseTime(m, build) IN
    IF c.panics THEN c
    ELSE IF c.v = <<>> THEN Returns(TRUE)
    ELSE Returns(After(c.v[1], now))

\* The markets looked at: closeTime absent, null, a string, or an integer of
\* magnitude up to MaxTs; the two builds; two readings of the clock.
CloseTimes ==
    {<<>>, <<JNull>>, <<JString("soon")>>} \cup {<<JNumber(n)>> : n \in (-MaxTs)..MaxTs}

Builds == {"debug", "release"}

Nows == {[secs |-> 0, nanos |-> 0], [secs |-> 1, nanos |-> 500000000]}

Probes ==
    {[market |-> FromValue("LiteMarket", JMarket(ct)).v, build |-> b, now |-> n,
      close |-> <<>>, active |-> <<>>] : ct \in CloseTimes, b \in Builds, n \in Nows}

InitClose == NoStreams /\ probe \in Probes

CallCloseTime ==
    /\ probe.close = <<>>
    /\ probe' = [probe EXCEPT !.close = <<CloseTime(probe.market, probe.build)>>]
    /\ UNCHANGED <<alive, call, state, fut, next, requests, responses, out>>

CallIsActive ==
    /\ probe.active = <<>>
    /\ probe' = [probe EXCEPT
                    !.active = <<IsActive(probe.market, probe.build, probe.now)>>]
    /\ UNCHANGED <<alive, call, state, fut, next, requests, responses, out>>

NextClose == CallCloseTime \/ CallIsActive

SpecClose == InitClose /\ [][NextClose]_vars
\* ================================================================ claims
\* Vocabulary of the claims.
Success(resp) == resp.net = "ok" /\ resp.status \in 200..299
IsArrayResponse(resp) == Success(resp) /\ resp.body.t = "array"
IsEmptyPage(resp) == IsArrayResponse(resp) /\ resp.body.v = <<>>
HasStringId(e) == e.t = "object" /\ e.id # <<>> /\ e.id[1].t = "string"
WellFormedPage(T, resp) ==
    /\ IsArrayResponse(resp)
    /\ resp.body.v # <<>>
    /\ HasStringId(resp.body.v[Len(resp.body.v)])
    /\ \A i \in 1..Len(resp.body.v) : FromValue(T, resp.body.v[i]).ok
\* The raw elements of the array bodies of rs, page after page.
RECURSIVE RawConcat(_)
RawConcat(rs) ==
    IF rs = <<>> THEN <<>>
    ELSE (IF Head(rs).body.t = "array" THEN Head(rs).body.v ELSE <<>>) \o RawConcat(Tail(rs))
\* The polls of stream s returned n Ok items, then nothing but end-of-stream,
\* at least once.
OksThenEnd(s, n) ==
    /\ Len(out[s]) > n
    /\ \A j \in 1..Len(out[s]) : out[s][j].k = IF j <= n THEN "Ok" ELSE "End"
\* The values of the `before` entries of a parameter list, in order.
BeforeValues(params) ==
    LET idx == {i \in 1..Len(params) : params[i][1] = "before"}
        F[i \in 0..Len(params)] ==
            IF i = 0 THEN <<>>
            ELSE IF i \in idx THEN Append(F[i - 1], params[i][2]) ELSE F[i - 1]
    IN F[Len(params)]

\* C1: when the transport has answered a stream with well-formed pages of
\* sizes n1..nk and then an empty array, the consumer has received exactly
\* n1+...+nk Ok items, no Err, then end-of-stream, and exactly k+1 requests
\* were issued.
C1_Termination ==
    \A s \in Streams :
        LET rs == responses[s]
            k == Len(rs) - 1
        IN (/\ rs # <<>>
            /\ \A i \in 1..k : WellFormedPage(call[s].T, rs[i])
            /\ IsEmptyPage(rs[k + 1]))
           => /\ OksThenEnd(s, Served(rs))
              /\ Len(requests[s]) = k + 1

C1_Witness ==
    \E s \in Streams :
        /\ Len(responses[s]) = 3
        /\ \A i \in 1..2 : WellFormedPage(call[s].T, responses[s][i])
        /\ IsEmptyPage(responses[s][3])
        /\ Len(responses[s][1].body.v) = 2
        /\ Len(out[s]) = 4

\* C2: the `before` value of every request after the first is, verbatim, the
\* string id of the last element of the raw array the preceding request of
\* the stream returned, and it is the only `before` entry.
C2_CursorPropagation ==
    \A s \in Streams :
        \A i \in 2..Len(requests[s]) :
            /\ Len(responses[s]) >= i - 1
            /\ LET prev == responses[s][i - 1] IN
               /\ prev.body.t = "array"
               /\ prev.body.v # <<>>
               /\ HasStringId(prev.body.v[Len(prev.body.v)])
               /\ BeforeValues(requests[s][i].params)
                    = <<prev.body.v[Len(prev.body.v)].id[1].s>>

C2_Witness ==
    \E s \in Streams :
        /\ Len(requests[s]) = 3
        /\ BeforeValues(requests[s][2].params) = <<"a">>
        /\ BeforeValues(requests[s][3].params) = <<"b">>
        /\ Len(responses[s][1].body.v) = 2
        /\ responses[s][1].body.v[1] = JObject(<<JString("b")>>, "ok")

\* C3: the Ok items a stream has yielded are, in order, the decoded forms of
\* a prefix of the concatenation of the raw arrays the transport returned.
C3_Ordering ==
    \A s \in Streams :
        LET raw == RawConcat(responses[s])
            oks == SelectSeq(out[s], LAMBDA y : y.k = "Ok")
        IN /\ Len(oks) <= Len(raw)
           /\ \A j \in 1..Len(oks) : oks[j].v = [ty |-> call[s].T, data |-> raw[j]]

C3_Witness ==
    \E s \in Streams :
        LET oks == SelectSeq(out[s], LAMBDA y : y.k = "Ok") IN
        /\ Len(responses[s]) = 2
        /\ Len(oks) = 3
        /\ oks[1].v.data # oks[2].v.data
        /\ oks[2].v.data # oks[3].v.data
        /\ oks[1].v.data # oks[3].v.data

\* C4: when the first answer to a stream is an empty array, the stream has
\* yielded no item and no error, has ended, and issued exactly one request.
C4_EmptyFirstPage ==
    \A s \in Streams :
        (responses[s] # <<>> /\ IsEmptyPage(responses[s][1]))
            => /\ OksThenEnd(s, 0)
               /\ Len(requests[s]) = 1
               /\ Len(responses[s]) = 1

C4_Witness ==
    \E s \in Streams :
        /\ responses[s] # <<>>
        /\ IsEmptyPage(responses[s][1])
        /\ out[s] = <<YEnd, YEnd>>
\* The last answer to stream s ended it with an error of the given kind: the
\* polls returned the Ok items of the earlier pages, one Err of that kind,
\* then nothing but end-of-stream, and no request followed the failed one.
TerminalErr(s, kind) ==
    LET k == Len(responses[s])
        n == Served(SubSeq(responses[s], 1, k - 1))
    IN /\ Len(out[s]) > n
       /\ \A j \in 1..Len(out[s]) :
            out[s][j].k = IF j <= n THEN "Ok" ELSE IF j = n + 1 THEN "Err" ELSE "End"
       /\ out[s][n + 1].e.kind = kind
       /\ Len(requests[s]) = k
LastResponse(s) == responses[s][Len(responses[s])]
\* A non-empty array under a success status.
IsNonEmptyPage(resp) == IsArrayResponse(resp) /\ resp.body.v # <<>>
LastElem(resp) == resp.body.v[Len(resp.body.v)]
\* The elements of the page that do not deserialize into T.
Undecodable(T, resp) ==
    {i \in 1..Len(resp.body.v) : ~FromValue(T, resp.body.v[i]).ok}

\* C5: when a page request fails at the transport (network failure or an
\* HTTP status that is not a success status), the stream yields the items of
\* the earlier pages, exactly one Err of kind HttpError, then ends, without
\* retrying the request.
C5_TransportFailure ==
    \A s \in Streams :
        (/\ responses[s] # <<>>
         /\ \/ LastResponse(s).net = "fail"
            \/ LastResponse(s).status \notin 200..299)
            => TerminalErr(s, "HttpError")

\* C5, for the failures the code does detect (a network failure, a 4xx or
\* 5xx status): the same outcome.
C5_ErrorStatus ==
    \A s \in Streams :
        (/\ responses[s] # <<>>
         /\ \/ LastResponse(s).net = "fail"
            \/ LastResponse(s).status \in 400..599)
            => TerminalErr(s, "HttpError")

\* C6: when a page response of success status is a JSON value that is not an
\* array, the stream yields exactly one SchemaError, after the items of the
\* earlier pages only, and ends.
C6_NonArray ==
    \A s \in Streams :
        (/\ responses[s] # <<>>
         /\ Success(LastResponse(s))
         /\ LastResponse(s).body.t \notin {"array", "notjson"})
            => TerminalErr(s, "SchemaError")

C6_Witness ==
    \E s \in Streams :
        /\ Len(responses[s]) = 2
        /\ Len(responses[s][1].body.v) = 2
        /\ Success(responses[s][2])
        /\ responses[s][2].body = JObject(<<>>, "ok")
        /\ Len(out[s]) = 4
        /\ out[s][3] = YErr(SchemaError("Streaming response returned not an array?",
                                         <<JObject(<<>>, "ok")>>))

\* C7: for every response of success status whose body does not decode as a
\* JSON array (a JSON value of another shape, or no JSON at all), the one
\* terminal error is of kind SchemaError.
C7_ExpectedArray ==
    \A s \in Streams :
        (/\ responses[s] # <<>>
         /\ Success(LastResponse(s))
         /\ LastResponse(s).body.t # "array")
            => TerminalErr(s, "SchemaError")

\* C8: when the last raw element of a non-empty page has no string `id` (no
\* `id`, an `id` of another type, or no object at all), the stream yields
\* exactly one SchemaError, no item of that page, ends, and issues no further
\* request.
C8_MissingId ==
    \A s \in Streams :
        (/\ responses[s] # <<>>
         /\ IsNonEmptyPage(LastResponse(s))
         /\ ~HasStringId(LastElem(LastResponse(s))))
            => TerminalErr(s, "SchemaError")

C8_Witness ==
    \E s \in Streams :
        /\ Len(responses[s]) = 2
        /\ IsNonEmptyPage(responses[s][2])
        /\ responses[s][2].body.v
             = <<JObject(<<JString("a")>>, "ok"), JObject(<<JNumber("7")>>, "ok")>>
        /\ Len(out[s]) = 3
        /\ out[s][2] = YErr(SchemaError("Not a string id?", <<JNumber("7")>>))
        /\ out[s][3] = YEnd

\* C9: when an element of a page fails to decode into T (the last element
\* having a string id), no item of that page is emitted, the stream yields
\* exactly one ParseError and ends with no further request.
C9_FailWholePage ==
    \A s \in Streams :
        (/\ responses[s] # <<>>
         /\ IsNonEmptyPage(LastResponse(s))
         /\ HasStringId(LastElem(LastResponse(s)))
         /\ Undecodable(call[s].T, LastResponse(s)) # {})
            => TerminalErr(s, "ParseError")

C9_Witness ==
    \E s \in Streams :
        /\ Len(responses[s]) = 1
        /\ IsNonEmptyPage(responses[s][1])
        /\ HasStringId(LastElem(responses[s][1]))
        /\ Undecodable(call[s].T, responses[s][1]) = {2}
        /\ Len(responses[s][1].body.v) = 3
        /\ out[s] = <<YErr(ParseError("missing field")), YEnd>>

\* C10: when an element of a page fails to decode into T, the terminal error
\* carries the raw JSON value of the element that failed.
C10_CarriesRawValue ==
    \A s \in Streams :
        (/\ responses[s] # <<>>
         /\ IsNonEmptyPage(LastResponse(s))
         /\ HasStringId(LastElem(LastResponse(s)))
         /\ Undecodable(call[s].T, LastResponse(s)) # {})
            => \E j \in 1..Len(out[s]) :
                 /\ out[s][j].k = "Err"
                 /\ \E i \in Undecodable(call[s].T, LastResponse(s)) :
                      LastResponse(s).body.v[i] \in Carried(out[s][j].e)
\* Stream s has yielded an Err item.
HasErred(s) == \E j \in 1..Len(out[s]) : out[s][j].k = "Err"
\* The transport has returned an empty page to stream s.
GotEmptyPage(s) == \E i \in 1..Len(responses[s]) : IsEmptyPage(responses[s][i])
\* In this step stream s issues no request, and a poll of it that returns
\* returns end-of-stream.
Exhausted(s) ==
    /\ requests'[s] = requests[s]
    /\ state'[s] = <<>>
    /\ fut'[s] = <<>>
    /\ out'[s] = out[s] \/ out'[s] = Append(out[s], YEnd)

\* C11: what a stream yields has the shape Ok* Err? End*: after an Err item
\* or an end-of-stream nothing but end-of-stream follows, so no Ok item
\* follows an Err item and there is no second Err item.
C11_Shape ==
    \A s \in Streams :
        \A i, j \in 1..Len(out[s]) :
            (i < j /\ out[s][i].k # "Ok") => out[s][j].k = "End"

C11_Witness ==
    \E s \in Streams :
        /\ Len(out[s]) = 4
        /\ out[s][1].k = "Ok"
        /\ out[s][2].k = "Ok"
        /\ out[s][3].k = "Err"
        /\ out[s][4].k = "End"
        /\ Len(responses[s]) = 2

\* C12: once a stream has yielded its Err item, every further poll returns
\* end-of-stream and no request is issued: no recovery, no resumption.
C12_ErrIsTerminal ==
    [][\A s \in Streams : HasErred(s) => Exhausted(s)]_vars

C12_Witness ==
    \E s \in Streams :
        /\ Len(out[s]) = 3
        /\ out[s][1].k = "Err"
        /\ out[s][2] = YEnd
        /\ out[s][3] = YEnd
        /\ Len(requests[s]) = 1

\* C13: once the transport has returned an empty page to a stream, the
\* stream issues no request any more and every poll returns end-of-stream.
C13_ExhaustedIsTerminal ==
    [][\A s \in Streams : GotEmptyPage(s) => Exhausted(s)]_vars

C13_Witness ==
    \E s \in Streams :
        /\ Len(responses[s]) = 2
        /\ IsEmptyPage(responses[s][2])
        /\ Len(requests[s]) = 2
        /\ Len(out[s]) = 3
        /\ out[s][1].k = "Ok"
        /\ out[s][2] = YEnd
        /\ out[s][3] = YEnd
\* The number of Ok items stream s has yielded.
OkCount(s) == Cardinality({j \in 1..Len(out[s]) : out[s][j].k = "Ok"})
\* The requests of stream s that the transport has not answered.
InFlight(s) == Len(requests[s]) - Len(responses[s])

\* C14: fetches are pull-driven.  Constructing a stream issues no request; a
\* request is issued only by a poll of the consumer that finds no buffered
\* item, that poll then waits for the answer; every item of every page
\* fetched before has been handed to the consumer by then.  A consumer that
\* does not poll causes no request.
C14_PullDriven ==
    [][\A s \in Streams :
        /\ alive[s] = "absent" => requests'[s] = <<>>
        /\ requests'[s] # requests[s] =>
            /\ PollNext(s)
            /\ requests'[s] = Append(requests[s], fut'[s][1])
            /\ next[s] \in {<<>>, << <<>> >>}
            /\ next'[s] = <<>>
            /\ OkCount(s) = Served(responses[s])
            /\ out'[s] = out[s]]_vars

C14_Witness ==
    \E s \in Streams :
        /\ Len(responses[s]) = 1
        /\ responses[s][1].body.t = "array"
        /\ Len(responses[s][1].body.v) = 2
        /\ OkCount(s) = 2
        /\ Len(requests[s]) = 2
        /\ fut[s] # <<>>

\* C15: at most one request of a stream is in flight at any time, and it is
\* the one the pending future waits for.
C15_OneInFlight ==
    \A s \in Streams :
        /\ InFlight(s) \in {0, 1}
        /\ InFlight(s) = 1 <=> fut[s] # <<>>
        /\ fut[s] # <<>> => fut[s][1] = requests[s][Len(requests[s])]

C15_Witness ==
    \E s \in Streams :
        /\ Len(requests[s]) = 3
        /\ Len(responses[s]) = 2
        /\ InFlight(s) = 1
        /\ fut[s] # <<>>
\* The Ok items a stream of item type T yields, run alone, when the
\* transport answers its requests with rs, one after the other.
RECURSIVE AloneItems(_, _)
AloneItems(T, rs) ==
    IF rs = <<>> THEN <<>>
    ELSE LET step == PageStep(T, Head(rs)) IN
         IF step.ok /\ step.v # <<>>
         THEN step.v[1].items \o AloneItems(T, Tail(rs))
         ELSE <<>>
\* The Ok items stream s has yielded, in order.
OkItems(s) ==
    LET oks == SelectSeq(out[s], LAMBDA y : y.k = "Ok")
    IN [j \in 1..Len(oks) |-> oks[j].v]
Buffered(s) == IF next[s] = <<>> THEN <<>> ELSE next[s][1]
IsPrefix(p, q) == Len(p) <= Len(q) /\ SubSeq(q, 1, Len(p)) = p

\* C16: of two streams built with the same base parameters and run in any
\* interleaving, each sends in every request its base parameters followed
\* only by the cursor of its own preceding page (none in its first request),
\* and yields the items it would yield alone on its own answers.
C16_Independent ==
    \A s \in Streams :
        /\ \A i \in 1..Len(requests[s]) :
            requests[s][i].params =
                IF i = 1 THEN call[s].params
                ELSE LET page == responses[s][i - 1].body.v
                     IN Append(call[s].params, <<"before", page[Len(page)].id[1].s>>)
        /\ IsPrefix(OkItems(s), AloneItems(call[s].T, responses[s]))
        /\ alive[s] = "live" =>
             OkItems(s) \o Buffered(s) = AloneItems(call[s].T, responses[s])

C16_Witness ==
    /\ call["A"] = call["B"]
    /\ Len(requests["A"]) = 2
    /\ Len(requests["B"]) = 2
    /\ fut["A"] # <<>>
    /\ fut["B"] # <<>>
    /\ BeforeValues(requests["A"][2].params) = <<"a">>
    /\ BeforeValues(requests["B"][2].params) = <<"b">>
\* C18: dropping a stream, at any point, leaves nothing behind.  A dropped
\* stream holds no cursor, no pending request and no buffered item; it issues
\* no request, receives no answer and yields nothing any more; and a stream
\* built later starts from the seed state, without cursor or buffered item,
\* and sends its first request with the base parameters only.
C18_DropLeavesNothing ==
    /\ [](\A s \in Streams :
            /\ alive[s] = "dropped" =>
                 state[s] = <<>> /\ fut[s] = <<>> /\ next[s] = <<>>
            /\ requests[s] # <<>> => requests[s][1].params = call[s].params)
    /\ [][\A s \in Streams :
            /\ alive[s] = "dropped" =>
                 /\ alive'[s] = "dropped"
                 /\ requests'[s] = requests[s]
                 /\ responses'[s] = responses[s]
                 /\ out'[s] = out[s]
            /\ (alive[s] = "absent" /\ alive'[s] = "live") =>
                 /\ state'[s] = << <<>> >>
                 /\ fut'[s] = <<>>
                 /\ next'[s] = <<>>
                 /\ requests'[s] = <<>>]_vars

\* One stream dropped while its second request was in flight, the other
\* dropped with an item still buffered.
C18_Witness ==
    /\ alive["A"] = "dropped"
    /\ InFlight("A") = 1
    /\ Len(requests["A"]) = 2
    /\ alive["B"] = "dropped"
    /\ Len(responses["B"]) = 1
    /\ responses["B"][1].body.t = "array"
    /\ Len(responses["B"][1].body.v) = 2
    /\ OkCount("B") = 1
\* C17: every request of a stream has the stream's path and, as parameters,
\* the base parameters unchanged and in order, followed by nothing in the
\* first request and by exactly one ("before", cursor) entry in the later
\* ones; the base parameters of a stream never change.
C17_RequestFrame ==
    /\ [](\A s \in Streams :
            \A i \in 1..Len(requests[s]) :
                LET ps == requests[s][i].params
                    base == call[s].params
                IN /\ requests[s][i].path = call[s].path
                   /\ IsPrefix(base, ps)
                   /\ Len(ps) = Len(base) + (IF i = 1 THEN 0 ELSE 1)
                   /\ i > 1 => ps[Len(ps)][1] = "before" /\ ps[Len(ps)][2] \in Ids
                   /\ Len(BeforeValues(ps)) = (IF i = 1 THEN 0 ELSE 1))
    /\ [][\A s \in Streams : alive[s] # "absent" => call'[s] = call[s]]_vars

C17_Witness ==
    \E s \in Streams :
        /\ Len(requests[s]) = 3
        /\ requests[s][1] = [path |-> "/bets", params |-> << <<"userId", "u1">> >>]
        /\ requests[s][2]
             = [path |-> "/bets", params |-> << <<"userId", "u1">>, <<"before", "a">> >>]
        /\ requests[s][3]
             = [path |-> "/bets", params |-> << <<"userId", "u1">>, <<"before", "b">> >>]
\* The number of pages of rs, counted from the first, that together hold at
\* least n elements: the smallest such number.
HoldAtLeast(rs, k, n) == Served(SubSeq(rs, 1, k)) >= n
MinPages(rs, n) ==
    CHOOSE k \in 1..Len(rs) :
        HoldAtLeast(rs, k, n) /\ \A j \in 1..(k - 1) : ~HoldAtLeast(rs, j, n)

\* C19: a consumer that takes TakeN items from a stream whose answers are
\* all well-formed pages gets only Ok values, never more than TakeN, and they
\* are the first elements of the pages in order, decoded; a request is sent
\* only while the pages before it hold fewer than TakeN elements, and once
\* TakeN items are taken the number of requests is the smallest k such that
\* the first k pages hold at least TakeN elements.
C19_TakeAcrossPages ==
    \A s \in Streams :
        (/\ alive[s] = "live"
         /\ \A i \in 1..Len(responses[s]) : WellFormedPage(call[s].T, responses[s][i]))
        => LET raw == RawConcat(responses[s]) IN
           /\ Len(out[s]) <= TakeN
           /\ Len(out[s]) <= Len(raw)
           /\ \A j \in 1..Len(out[s]) :
                out[s][j] = YOk(FromValue(call[s].T, raw[j]).v)
           /\ \A k \in 1..(Len(requests[s]) - 1) : ~HoldAtLeast(responses[s], k, TakeN)
           /\ Len(out[s]) = TakeN
                => /\ Len(responses[s]) = Len(requests[s])
                   /\ HoldAtLeast(responses[s], Len(responses[s]), TakeN)
                   /\ Len(requests[s]) = MinPages(responses[s], TakeN)

\* The items are spread over several pages, the last of which holds more than
\* the consumer takes.
C19_Witness ==
    \E s \in Streams :
        /\ alive[s] = "live"
        /\ \A i \in 1..Len(responses[s]) : WellFormedPage(call[s].T, responses[s][i])
        /\ Len(requests[s]) >= 2
        /\ Served(responses[s]) > TakeN
        /\ Len(out[s]) = TakeN
        /\ Len(requests[s]) = MinPages(responses[s], TakeN)
        /\ Buffered(s) # <<>>
\* The outcome of id() on an item a stream yielded.
IdOf(item) == IF item.ty = "User" THEN UserId(item) ELSE MarketId(item)
\* The last element of the page has a string id and some other element of
\* it has none.
InnerLacksId(resp) ==
    /\ IsNonEmptyPage(resp)
    /\ HasStringId(LastElem(resp))
    /\ \E i \in 1..(Len(resp.body.v) - 1) : ~HasStringId(resp.body.v[i])

\* C20: a page with an element, other than the last, that has no string id
\* makes the stream yield an error, and id() panics on no item the stream
\* yielded as Ok.
C20_DecodedAtBoundary ==
    \A s \in Streams :
        alive[s] = "live" =>
            /\ \A i \in 1..Len(responses[s]) :
                 InnerLacksId(responses[s][i])
                    => \E j \in 1..Len(out[s]) : out[s][j].k = "Err"
            /\ \A j \in 1..Len(out[s]) :
                 out[s][j].k = "Ok" => ~IdOf(out[s][j].v).panics
\* The states of the explicit machine, and the one stream s is in: the
\* cursor it holds or has put into its pending request, or Done.
Start == [st |-> "Start"]
HasCursor(id) == [st |-> "HasCursor", id |-> id]
Done == [st |-> "Done"]
CursorState(c) == IF c = <<>> THEN Start ELSE HasCursor(c[1])
MachineState(s) ==
    IF fut[s] # <<>> THEN CursorState(PendingCursor(s))
    ELSE IF state[s] = <<>> THEN Done
    ELSE CursorState(state[s][1])
\* What the machine does with an answer: "page" (new cursor, items), "empty"
\* or "error".
MachinePage(T, resp) ==
    [on |-> "page",
     to |-> HasCursor(LastElem(resp).id[1].s),
     items |-> [i \in 1..Len(resp.body.v) |-> FromValue(T, resp.body.v[i]).v]]
MachineOn(T, resp) ==
    IF WellFormedPage(T, resp) THEN MachinePage(T, resp)
    ELSE IF IsEmptyPage(resp) THEN [on |-> "empty", to |-> Done, items |-> <<>>]
    ELSE [on |-> "error", to |-> Done, items |-> <<>>]
\* An answer with a 3xx status is taken either as an error or as its body
\* would be taken with status 200 (C5 settles which).
Machine(T, resp) ==
    IF resp.net = "ok" /\ resp.status \in 300..399
    THEN {MachineOn(T, resp), MachineOn(T, [resp EXCEPT !.status = 200])}
    ELSE {MachineOn(T, resp)}
\* The items stream s has handed over or holds ready to hand over.
Emitted(s) == OkItems(s) \o Buffered(s)

\* C21: the stream behaves as the machine Start | HasCursor(id) | Done.  A
\* stream starts in Start.  An answer arrives only outside Done and acts as
\* the machine says: a well-formed page moves to HasCursor(id of its last
\* element) and emits its items, an empty page moves to Done with
\* end-of-stream and no item, anything else emits one error and moves to
\* Done.  Every other step keeps the machine state and the emitted items; a
\* request is sent outside Done only and carries the cursor of the state;
\* end-of-stream is returned without an answer in Done only.
C21_StateMachine ==
    /\ [](\A s \in Streams :
            alive[s] = "live" /\ requests[s] = <<>> => MachineState(s) = Start)
    /\ [][\A s \in Streams :
            alive[s] = "live" /\ alive'[s] = "live" =>
              IF responses'[s] # responses[s]
              THEN LET resp == responses'[s][Len(responses'[s])] IN
                   /\ MachineState(s) # Done
                   /\ requests'[s] = requests[s]
                   /\ \E m \in Machine(call[s].T, resp) :
                        /\ MachineState(s)' = m.to
                        /\ Emitted(s)' = Emitted(s) \o m.items
                        /\ Len(out'[s]) = Len(out[s]) + 1
                        /\ out'[s][Len(out'[s])].k =
                             (CASE m.on = "page" -> "Ok"
                                [] m.on = "empty" -> "End"
                                [] m.on = "error" -> "Err")
              ELSE /\ MachineState(s)' = MachineState(s)
                   /\ Emitted(s)' = Emitted(s)
                   /\ requests'[s] # requests[s] =>
                        /\ MachineState(s) # Done
                        /\ requests'[s] = Append(requests[s],
                              [path |-> call[s].path,
                               params |-> BuildParams(call[s].params,
                                   IF MachineState(s) = Start THEN <<>>
                                   ELSE <<MachineState(s).id>>)])
                   /\ out'[s] # out[s] =>
                        /\ Len(out'[s]) = Len(out[s]) + 1
                        /\ out'[s][Len(out'[s])].k \in {"Ok", "End"}
                        /\ out'[s][Len(out'[s])].k = "End" <=> MachineState(s) = Done]_vars

\* Start, HasCursor("a"), HasCursor("b"), Done: two pages, then an empty one.
C21_Witness ==
    \E s \in Streams :
        /\ Len(responses[s]) = 3
        /\ \A i \in {1, 2} : WellFormedPage(call[s].T, responses[s][i])
        /\ LastElem(responses[s][1]).id[1].s = "a"
        /\ LastElem(responses[s][2]).id[1].s = "b"
        /\ requests[s][3].params = BuildParams(call[s].params, <<"b">>)
        /\ IsEmptyPage(responses[s][3])
        /\ MachineState(s) = Done
        /\ out[s][Len(out[s])] = YEnd
HasEnded(s) == \E j \in 1..Len(out[s]) : out[s][j].k = "End"
\* Stream s has handed over every item of a non-empty page and waits for the
\* next poll.
Drained(s) ==
    /\ alive[s] = "live"
    /\ fut[s] = <<>>
    /\ responses[s] # <<>>
    /\ IsNonEmptyPage(LastResponse(s))
    /\ Buffered(s) = <<>>

\* C22: with a remote that answers with well-formed pages, the stream yields
\* no error and has ended exactly when an empty page has arrived; the poll
\* that follows the last item of a non-empty page sends a request and
\* returns nothing before the answer; and a consumer that keeps polling
\* either gets an empty page or consumes MaxLoopRequests pages, the stream
\* never ending on its own.
C22_EndsOnEmptyPageOnly ==
    /\ [](\A s \in Streams :
            /\ ~HasErred(s)
            /\ HasEnded(s) <=> GotEmptyPage(s))
    /\ [][\A s \in Streams :
            Drained(s) /\ <<requests[s], out[s], state[s], next[s]>>'
                            # <<requests[s], out[s], state[s], next[s]>>
                => /\ Len(requests'[s]) = Len(requests[s]) + 1
                   /\ fut'[s] # <<>>
                   /\ out'[s] = out[s]]_vars
    /\ \A s \in Solo :
            <>(\/ GotEmptyPage(s)
               \/ /\ Len(responses[s]) = MaxLoopRequests
                  /\ OkCount(s) = Served(responses[s])
                  /\ ~HasEnded(s))

\* The remote has ignored the cursor: the same page three times, the same
\* cursor sent twice, and the stream has not ended.
C22_Witness ==
    \E s \in Streams :
        /\ Len(responses[s]) = 3
        /\ responses[s][1] = responses[s][2]
        /\ responses[s][2] = responses[s][3]
        /\ Len(responses[s][1].body.v) = 1
        /\ requests[s][2] = requests[s][3]
        /\ OkCount(s) = 3
        /\ Drained(s)
        /\ ~HasEnded(s)
\* The decoded items of a well-formed page.
PageItems(T, resp) == [i \in 1..Len(resp.body.v) |-> FromValue(T, resp.body.v[i]).v]

\* C23: the items a stream holds for the consumer are the items of the most
\* recently fetched page that it has not handed over yet, in order, and
\* nothing else; while a request is in flight the stream holds no item.
C23_OnePageBuffered ==
    \A s \in Streams :
        /\ fut[s] # <<>> => next[s] = <<>>
        /\ Buffered(s) # <<>> =>
             /\ responses[s] # <<>>
             /\ InFlight(s) = 0
             /\ PageStep(call[s].T, LastResponse(s)).ok
             /\ IsNonEmptyPage([LastResponse(s) EXCEPT !.status = 200])
             /\ LET items == PageItems(call[s].T, LastResponse(s))
                    before == Served(SubSeq(responses[s], 1, Len(responses[s]) - 1))
                    handed == OkCount(s) - before
                IN /\ handed \in 1..(Len(items) - 1)
                   /\ Buffered(s) = SubSeq(items, handed + 1, Len(items))

\* Of the two items of the second page, one is handed over and one is held.
C23_Witness ==
    \E s \in Streams :
        /\ Len(responses[s]) = 2
        /\ WellFormedPage(call[s].T, responses[s][1])
        /\ WellFormedPage(call[s].T, responses[s][2])
        /\ Len(responses[s][2].body.v) = 2
        /\ OkCount(s) = Len(responses[s][1].body.v) + 1
        /\ Len(Buffered(s)) = 1
        /\ Buffered(s)[1] = FromValue(call[s].T, responses[s][2].body.v[2]).v
\* The errors stream s has yielded, in order.
ErrsOf(s) ==
    LET es == SelectSeq(out[s], LAMBDA y : y.k = "Err")
    IN [j \in 1..Len(es) |-> es[j].e]
\* The steps of the validation an answer fails; the steps are taken in the
\* order 1 transport, 2 array shape, 3 emptiness (no failure: the end),
\* 4 id of the last element, 5 decoding of the elements.
FailsTransport(resp) == resp.net # "ok" \/ resp.status \in 400..599
FailsShape(resp) == resp.body.t # "array"
FailsLastId(resp) == resp.body.t = "array" /\ resp.body.v # <<>> /\ ~HasStringId(LastElem(resp))
FailsDecode(T, resp) ==
    /\ resp.body.t = "array"
    /\ \E i \in 1..Len(resp.body.v) : ~FromValue(T, resp.body.v[i]).ok
IsIdError(e) == e.kind = "SchemaError" /\ e.msg = "Not a string id?"
IsShapeError(e) ==
    e.kind = "SchemaError" /\ e.msg = "Streaming response returned not an array?"

\* C24: a stream reports at most one error, for its last answer, and the
\* error is that of the first step the answer fails: a transport failure
\* gives HttpError whatever the body; a body that is no array gives neither
\* the id error nor ParseError; an empty array gives no error; a non-empty
\* array whose last element has no string id gives the id error even when
\* an element cannot be decoded; ParseError is given only when the last
\* element has a string id.
C24_ValidationOrder ==
    \A s \in Streams :
        /\ Len(ErrsOf(s)) <= 1
        /\ alive[s] = "live" /\ responses[s] # <<>> =>
             LET resp == LastResponse(s)
                 T == call[s].T
                 errs == ErrsOf(s)
             IN /\ FailsTransport(resp) => errs # <<>> /\ errs[1].kind = "HttpError"
                /\ FailsShape(resp) =>
                     /\ errs # <<>>
                     /\ errs[1].kind = "HttpError" \/ IsShapeError(errs[1])
                /\ ~FailsTransport(resp) /\ resp.body.t \notin {"array", "notjson"}
                     => IsShapeError(errs[1])
                /\ ~FailsTransport(resp) /\ resp.body.t = "array" /\ resp.body.v = <<>>
                     => errs = <<>>
                /\ ~FailsTransport(resp) /\ FailsLastId(resp)
                     => errs # <<>> /\ IsIdError(errs[1])
                /\ ~FailsTransport(resp) /\ ~FailsShape(resp) /\ ~FailsLastId(resp)
                     /\ FailsDecode(T, resp)
                     => errs # <<>> /\ errs[1].kind = "ParseError"
                /\ errs # <<>> /\ errs[1].kind = "ParseError"
                     => ~FailsTransport(resp) /\ ~FailsShape(resp) /\ ~FailsLastId(resp)

\* The last element has no string id and another element cannot be decoded:
\* the id error is reported.
C24_Witness ==
    \E s \in Streams :
        /\ alive[s] = "live"
        /\ responses[s] # <<>>
        /\ Success(LastResponse(s))
        /\ FailsLastId(LastResponse(s))
        /\ FailsDecode(call[s].T, LastResponse(s))
        /\ ErrsOf(s) # <<>>
        /\ IsIdError(ErrsOf(s)[1])
\* A page the transport delivered with success whose last element has a
\* string id, some other element of which has none, and whose elements all
\* decode into T.
LastIdOnly(T, resp) ==
    /\ WellFormedPage(T, resp)
    /\ \E i \in 1..(Len(resp.body.v) - 1) : ~HasStringId(resp.body.v[i])

\* C25: a page whose last element alone is known to have a string id is
\* accepted: it causes no error, its elements are yielded decoded and in
\* order, those without an id included, and the next request carries the id
\* of its last element as cursor.
C25_LastIdOnly ==
    \A s \in Streams :
        \A i \in 1..Len(responses[s]) :
            alive[s] = "live" /\ LastIdOnly(call[s].T, responses[s][i]) =>
                LET resp == responses[s][i]
                    items == PageItems(call[s].T, resp)
                    before == Served(SubSeq(responses[s], 1, i - 1))
                IN /\ Len(out[s]) > before
                   /\ \A j \in 1..Len(items) :
                        before + j <= Len(out[s]) => out[s][before + j] = YOk(items[j])
                   /\ i = Len(responses[s]) =>
                        /\ ~HasErred(s)
                        /\ Len(Emitted(s)) = before + Len(items)
                   /\ Len(requests[s]) > i =>
                        BeforeValues(requests[s][i + 1].params)
                            = <<LastElem(resp).id[1].s>>

\* A page of an element without id and an element with id "b": both are
\* yielded, and the next request asks for the page before "b".
C25_Witness ==
    \E s \in Streams :
        /\ Len(responses[s]) = 1
        /\ LastIdOnly(call[s].T, responses[s][1])
        /\ Len(responses[s][1].body.v) = 2
        /\ responses[s][1].body.v[1] = JObject(<<>>, "ok")
        /\ Len(out[s]) = 2
        /\ out[s][1] = YOk(FromValue(call[s].T, JObject(<<>>, "ok")).v)
        /\ out[s][2].k = "Ok"
        /\ Len(requests[s]) = 2
        /\ BeforeValues(requests[s][2].params) = <<"b">>
\* The names of the filters of stream_bets, in the order of its arguments.
FilterNames == <<"userId", "username", "contractId", "contractSlug">>
\* The filters that are Some, in that order, as (name, value) pairs.
SomeFilters(args) ==
    LET idx == SelectSeq(<<1, 2, 3, 4>>, LAMBDA i : args[i] # <<>>)
    IN [j \in 1..Len(idx) |-> <<FilterNames[idx[j]], args[idx[j]][1]>>]

\* C26: a stream built by stream_bets has path /bets, item type Bet and as
\* base parameters the filters that are Some, in the order userId, username,
\* contractId, contractSlug, once each, with the values given, and no
\* `before`; streams built by stream_markets and stream_users have paths
\* /markets and /users, item types LiteMarket and User and no base
\* parameter.  The first request of a stream carries just that.
C26_BaseParams ==
    \A s \in Streams :
        alive[s] = "live" =>
            LET c == call[s] IN
            /\ c.fn = "stream_bets" =>
                 /\ c.path = "/bets"
                 /\ c.T = "Bet"
                 /\ c.params = SomeFilters(c.args)
                 /\ Len(c.params) = Cardinality({c.params[i][1] : i \in 1..Len(c.params)})
            /\ c.fn = "stream_markets" =>
                 c.path = "/markets" /\ c.T = "LiteMarket" /\ c.params = <<>>
            /\ c.fn = "stream_users" =>
                 c.path = "/users" /\ c.T = "User" /\ c.params = <<>>
            /\ BeforeValues(c.params) = <<>>
            /\ requests[s] # <<>> =>
                 requests[s][1] = [path |-> c.path, params |-> c.params]

\* stream_bets(Some("x"), None, Some("y"), Some("x")) has sent its first
\* request.
C26_Witness ==
    \E s \in Streams :
        /\ alive[s] = "live"
        /\ call[s].fn = "stream_bets"
        /\ call[s].args = << <<"x">>, <<>>, <<"y">>, <<"x">> >>
        /\ Len(requests[s]) = 1
        /\ requests[s][1] =
             [path |-> "/bets",
              params |-> << <<"userId", "x">>, <<"contractId", "y">>,
                            <<"contractSlug", "x">> >>]
\* The closeTime member of the market looked at.
ProbedCloseTime == IndexCloseTime(probe.market.data)
\* The instant ms milliseconds from the epoch.
InstantOfMs(ms) == [secs |-> ms \div 1000, nanos |-> (ms % 1000) * 1000000]

\* C27: for a market whose closeTime is an integer, close_time does not
\* panic and returns the instant that many milliseconds from the epoch; for
\* a market without closeTime, or with a null one, close_time returns None
\* and is_active returns true.
C27_CloseTime ==
    probe # NoProbe =>
        /\ probe.close # <<>> /\ ProbedCloseTime.t = "number" =>
             /\ ~probe.close[1].panics
             /\ probe.close[1].v = <<InstantOfMs(ProbedCloseTime.s)>>
        /\ probe.close # <<>> /\ ProbedCloseTime.t = "null" =>
             probe.close[1] = Returns(<<>>)
        /\ probe.active # <<>> /\ ProbedCloseTime.t = "null" =>
             probe.active[1] = Returns(TRUE)
\* C27, the part that holds: for an integer closeTime that is not negative,
\* or is a whole number of seconds, close_time returns the exact instant in
\* both builds; for every other integer it panics.
C27_ExactUnlessNegativeFraction ==
    probe # NoProbe /\ probe.close # <<>> /\ ProbedCloseTime.t = "number" =>
        IF ProbedCloseTime.s >= 0 \/ ProbedCloseTime.s % 1000 = 0
        THEN probe.close[1] = Returns(<<InstantOfMs(ProbedCloseTime.s)>>)
        ELSE probe.close[1].panics
====
